---------------------------- MODULE Spec2Model ----------------------------
(***************************************************************************)
(* Model of the API-testing routes of src/API_testing.py:                  *)
(*   POST /testing/generate         (generate_testcases, the batch route)  *)
(*   POST /testing/generate-single  (generate_single_api_testcases)        *)
(* with the pipeline stages they drive: call_groq, safe_extract_json,      *)
(* repair_with_ai and sanitize_test_cases (Spec, SanitizeSpec, and         *)
(* ExtractSpec for safe_extract_json on its own; FairSpec is the batch     *)
(* route with the fairness under which it runs to its end); of             *)
(*   POST /generate_test_cases      (src/test_scenarios.py, ScenarioSpec), *)
(*   POST /generate, POST /stream   (src/app.py, AppSpec)                  *)
(* and of                                                                  *)
(*   POST /playback                 (src/record.py, PlaybackSpec).         *)
(*                                                                         *)
(* Texts are sequences of atoms.  An atom is one character of the text     *)
(* ("{", ",", a quote, a newline ...) or a run of characters that none of  *)
(* the regular expressions of the code looks into (a word, a number, the   *)
(* three backticks of a code fence).  Two runs are never adjacent outside  *)
(* a string literal, also not once the fences between them are removed; an *)
(* empty text stands for "" and for a completion whose content is None.    *)
(* JSON values are tagged records.                                         *)
(*                                                                         *)
(* The variables calls, started, last, repairs, gens and outcomes are      *)
(* history variables: they record what the handler did and are read by no  *)
(* action.                                                                 *)
(***************************************************************************)
EXTENDS Integers, Sequences, FiniteSets, TLC

(***************************************************************************)
(* Atoms of a text.                                                        *)
(***************************************************************************)
LBRACE == "{"
RBRACE == "}"
LBRACK == "["
RBRACK == "]"
COMMA  == ","
COLON  == ":"
QUOTE  == "\""
SP     == " "
NL     == "\n"
\* the three backticks of a code fence, one atom
FENCE  == "#fence"
JSONWORD == "json"
LT     == "<"
GT     == ">"

Whitespace == {SP, NL}
NumLits    == {"200", "404"}

(***************************************************************************)
(* JSON values as Python holds them after json.loads.                      *)
(***************************************************************************)
JNull      == [t |-> "null"]
JBool(b)   == [t |-> "bool", v |-> b]
JNum(n)    == [t |-> "num", v |-> n]
JStr(cs)   == [t |-> "str", v |-> cs]
JArr(vs)   == [t |-> "arr", v |-> vs]
JObj(f)    == [t |-> "obj", v |-> f]
EmptyDict  == JObj(<<>>)
EmptyList  == JArr(<<>>)

\* type(v).__name__, as the text of an AttributeError or TypeError spells it
TypeName(val) ==
    CASE val.t = "null" -> "NoneType"
      [] val.t = "bool" -> "bool"
      [] val.t = "num"  -> "int"
      [] val.t = "str"  -> "str"
      [] val.t = "arr"  -> "list"
      [] OTHER          -> "dict"

\* d.get(key, default) on a dict
DictGet(d, key, default) == IF key \in DOMAIN d.v THEN d.v[key] ELSE default

\* d[key] = val on a dict (the key is added or overwritten)
DictSet(d, key, val) ==
    JObj([k \in (DOMAIN d.v) \cup {key} |-> IF k = key THEN val ELSE d.v[k]])

\* d.pop(key, None) on a dict: what is left of d
DictPop(d, key) == JObj([k \in (DOMAIN d.v) \ {key} |-> d.v[k]])

(***************************************************************************)
(* Outcome of a call that may raise: a value, or the text of the exception *)
(* (str(e)).  A text of an exception is a non-empty sequence of pieces;    *)
(* the empty sequence stands for Python's None.                            *)
(***************************************************************************)
None       == <<>>
Ok(val)    == [ok |-> TRUE, val |-> val, err |-> None]
Raise(msg) == [ok |-> FALSE, val |-> JNull, err |-> msg]

E_EMPTY    == <<"Empty AI response">>
E_NOJSON   == <<"No JSON found">>
E_DECODE   == <<"JSONDecodeError">>
E_UPSTREAM == <<"Connection error.">>
E_URL      == <<"Invalid IPv6 URL">>
NoAttr(val, attr) == <<TypeName(val), "object has no attribute", attr>>
NotIterable(val)  == <<TypeName(val), "object is not iterable">>

(***************************************************************************)
(* Text helpers (regular expressions and str methods of the code).         *)
(***************************************************************************)
\* indices of text holding atom c
Positions(text, c) == {i \in 1..Len(text) : text[i] = c}
MinOf(S) == CHOOSE x \in S : \A y \in S : x <= y
MaxOf(S) == CHOOSE x \in S : \A y \in S : x >= y

\* re.sub(r"```json|```", "", text): a fence and the word json right after it go,
\* a fence alone goes
RECURSIVE StripFences(_)
StripFences(text) ==
    IF text = <<>> THEN <<>>
    ELSE IF Head(text) = FENCE
         THEN IF Len(text) >= 2 /\ text[2] = JSONWORD
              THEN StripFences(SubSeq(text, 3, Len(text)))
              ELSE StripFences(Tail(text))
         ELSE <<Head(text)>> \o StripFences(Tail(text))

\* str.strip(): leading and trailing whitespace removed
Strip(text) ==
    LET keep == {i \in 1..Len(text) : text[i] \notin Whitespace}
    IN  IF keep = {} THEN <<>> ELSE SubSeq(text, MinOf(keep), MaxOf(keep))

\* raw.replace("\n", " ")
ReplaceNL(text) == [i \in 1..Len(text) |-> IF text[i] = NL THEN SP ELSE text[i]]

\* the first index >= i of text that holds no whitespace (Len(text)+1 when none)
RECURSIVE SkipWs(_, _)
SkipWs(text, i) ==
    IF i <= Len(text) /\ text[i] \in Whitespace THEN SkipWs(text, i + 1) ELSE i

\* re.sub(r",\s*X", "X", text) for a closing atom X: a comma, the whitespace after
\* it and X are replaced by X, left to right, matches not overlapping
\* the text as it is: no comma is dropped (for C21)
SubTrailingComma_None(text, close, i) == SubSeq(text, i, Len(text))

RECURSIVE SubTrailingComma(_, _, _)
SubTrailingComma(text, close, i) ==
    IF i > Len(text) THEN <<>>
    ELSE LET j == SkipWs(text, i + 1)
         IN  IF text[i] = COMMA /\ j <= Len(text) /\ text[j] = close
             THEN <<close>> \o SubTrailingComma(text, close, j + 1)
             ELSE <<text[i]>> \o SubTrailingComma(text, close, i + 1)

(***************************************************************************)
(* json.loads: a recursive-descent parser of the JSON grammar.  A parse    *)
(* step returns [ok, val, next]: next is the index after what was read.    *)
(***************************************************************************)
PFail        == [ok |-> FALSE, val |-> JNull, next |-> 0]
PDone(val, n) == [ok |-> TRUE, val |-> val, next |-> n]

\* a string literal opening at text[i] = QUOTE: its atoms up to the next quote;
\* a raw newline inside a string is rejected (strict mode)
ParseString(text, i) ==
    LET closing == {j \in (i + 1)..Len(text) : text[j] = QUOTE}
    IN  IF closing = {} THEN PFail
        ELSE LET j == MinOf(closing)
                 body == SubSeq(text, i + 1, j - 1)
             IN  IF \E k \in 1..Len(body) : body[k] = NL THEN PFail
                 ELSE PDone(JStr(body), j + 1)

RECURSIVE ParseValue(_, _), ParseMembers(_, _, _), ParseElements(_, _, _)

\* a value starting at text[i] (whitespace already skipped)
ParseValue(text, i) ==
    IF i > Len(text) THEN PFail
    ELSE CASE text[i] = LBRACE ->
                LET j == SkipWs(text, i + 1)
                IN  IF j <= Len(text) /\ text[j] = RBRACE
                    THEN PDone(EmptyDict, j + 1)
                    ELSE ParseMembers(text, j, EmptyDict)
           [] text[i] = LBRACK ->
                LET j == SkipWs(text, i + 1)
                IN  IF j <= Len(text) /\ text[j] = RBRACK
                    THEN PDone(EmptyList, j + 1)
                    ELSE ParseElements(text, j, <<>>)
           [] text[i] = QUOTE -> ParseString(text, i)
           [] text[i] \in NumLits -> PDone(JNum(text[i]), i + 1)
           [] text[i] = "null" -> PDone(JNull, i + 1)
           [] text[i] = "true" -> PDone(JBool(TRUE), i + 1)
           [] text[i] = "false" -> PDone(JBool(FALSE), i + 1)
           [] OTHER -> PFail

\* the members of an object from the key expected at text[i]; acc is the dict so
\* far (a repeated key keeps its last value)
ParseMembers(text, i, acc) ==
    IF i > Len(text) \/ text[i] # QUOTE THEN PFail
    ELSE LET key == ParseString(text, i)
         IN  IF ~key.ok THEN PFail
             ELSE LET c == SkipWs(text, key.next)
                  IN  IF c > Len(text) \/ text[c] # COLON THEN PFail
                      ELSE LET item == ParseValue(text, SkipWs(text, c + 1))
                           IN  IF ~item.ok THEN PFail
                               ELSE LET e == SkipWs(text, item.next)
                                        dict == DictSet(acc, key.val.v, item.val)
                                    IN  IF e > Len(text) THEN PFail
                                        ELSE IF text[e] = RBRACE THEN PDone(dict, e + 1)
                                        ELSE IF text[e] = COMMA
                                             THEN ParseMembers(text, SkipWs(text, e + 1), dict)
                                        ELSE PFail

\* the elements of an array from the value expected at text[i]
ParseElements(text, i, acc) ==
    LET item == ParseValue(text, i)
    IN  IF ~item.ok THEN PFail
        ELSE LET e == SkipWs(text, item.next)
                 list == Append(acc, item.val)
             IN  IF e > Len(text) THEN PFail
                 ELSE IF text[e] = RBRACK THEN PDone(JArr(list), e + 1)
                 ELSE IF text[e] = COMMA
                      THEN ParseElements(text, SkipWs(text, e + 1), list)
                 ELSE PFail

\* json.loads(text): one value, whitespace around it, nothing else
json_loads(text) ==
    LET r == ParseValue(text, SkipWs(text, 1))
    IN  IF r.ok /\ SkipWs(text, r.next) = Len(text) + 1 THEN Ok(r.val)
        ELSE Raise(E_DECODE)

(***************************************************************************)
(* safe_extract_json                                                       *)
(***************************************************************************)
\* safe_extract_json without the test of line 140 (for C23)
safe_extract_json_NoEmptyCheck(text) ==
    LET stripped == Strip(StripFences(text))
        opens  == Positions(stripped, LBRACE)
        closes == Positions(stripped, RBRACE)
    IN  IF opens = {} \/ closes = {} \/ MinOf(opens) > MaxOf(closes)
        THEN Raise(E_NOJSON)
        ELSE LET raw0 == SubSeq(stripped, MinOf(opens), MaxOf(closes))
                 raw1 == ReplaceNL(raw0)
                 raw2 == SubTrailingComma(raw1, RBRACE, 1)
                 raw3 == SubTrailingComma(raw2, RBRACK, 1)
             IN  json_loads(raw3)

safe_extract_json(text) ==
    IF text = <<>> THEN Raise(E_EMPTY)
    ELSE LET stripped == Strip(StripFences(text))
             opens  == Positions(stripped, LBRACE)
             closes == Positions(stripped, RBRACE)
         IN  \* re.search(r"\{.*\}", text, re.DOTALL): greedy, from the first "{"
             \* to the last "}" after it
             IF opens = {} \/ closes = {} \/ MinOf(opens) > MaxOf(closes)
             THEN Raise(E_NOJSON)
             ELSE LET raw0 == SubSeq(stripped, MinOf(opens), MaxOf(closes))
                      raw1 == ReplaceNL(raw0)
                      raw2 == SubTrailingComma(raw1, RBRACE, 1)
                      raw3 == SubTrailingComma(raw2, RBRACK, 1)
                  IN  json_loads(raw3)

(***************************************************************************)
(* sanitize_test_cases                                                     *)
(***************************************************************************)
K_TEST_CASES == <<"test_cases">>
K_RV         == <<"request_variation">>
K_HEADERS    == <<"headers">>
K_BODY       == <<"body">>
K_ID         == <<"test_case_id">>
K_CATEGORY   == <<"category">>
K_NAME       == <<"test_case_name">>
K_STATUS     == <<"expected_status_code">>
K_BEHAVIOR   == <<"expected_behavior">>

BodylessMethods == {"GET", "DELETE"}

\* v.replace("<", "").replace(">", "") on the atoms of a string
RECURSIVE StripAngles(_)
StripAngles(cs) ==
    IF cs = <<>> THEN <<>>
    ELSE IF Head(cs) \in {LT, GT} THEN StripAngles(Tail(cs))
         ELSE <<Head(cs)>> \o StripAngles(Tail(cs))

\* lines 195-198: every string value of the body dict loses its "<" and ">"
CleanBody(body) ==
    JObj([k \in DOMAIN body.v |->
            IF body.v[k].t = "str" THEN JStr(StripAngles(body.v[k].v)) ELSE body.v[k]])

\* rv.setdefault("headers", {}): only an absent key is set
SetDefaultHeaders(rv) ==
    IF K_HEADERS \in DOMAIN rv.v THEN rv ELSE DictSet(rv, K_HEADERS, EmptyDict)

\* rv.pop("body", None) when the method carries no body
PopBody(rv, method) ==
    IF method \in BodylessMethods THEN DictPop(rv, K_BODY) ELSE rv

\* tc.get("expected_behavior", "")
BehaviorOf(tc) == DictGet(tc, K_BEHAVIOR, JStr(<<>>))

\* one turn of the loop of lines 188-207: the cleaned record, or the exception
SanitizeOne(tc, method) ==
    IF tc.t # "obj" THEN Raise(NoAttr(tc, "get"))
    ELSE LET rv0 == DictGet(tc, K_RV, EmptyDict)
         IN  IF rv0.t # "obj" THEN Raise(NoAttr(rv0, "setdefault"))
             ELSE LET rv1 == PopBody(SetDefaultHeaders(rv0), method)
                      rv  == IF DictGet(rv1, K_BODY, JNull).t = "obj"
                             THEN DictSet(rv1, K_BODY, CleanBody(rv1.v[K_BODY]))
                             ELSE rv1
                  IN  Ok(JObj(
                        K_ID :> DictGet(tc, K_ID, JNull)
                        @@ K_CATEGORY :> DictGet(tc, K_CATEGORY, JNull)
                        @@ K_NAME :> DictGet(tc, K_NAME, JNull)
                        @@ K_RV :> rv
                        @@ K_STATUS :> DictGet(tc, K_STATUS, JNull)
                        @@ K_BEHAVIOR :> BehaviorOf(tc)))

\* a set as a sequence, in some fixed order
RECURSIVE SetToSeq(_)
SetToSeq(S) ==
    IF S = {} THEN <<>>
    ELSE LET x == CHOOSE y \in S : TRUE IN <<x>> \o SetToSeq(S \ {x})

\* "for tc in test_cases": the items Python iterates over (the elements of a list,
\* the keys of a dict, the characters of a str), or the TypeError
Iterate(val) ==
    CASE val.t = "arr" -> Ok(val.v)
      [] val.t = "obj" -> Ok([i \in 1..Cardinality(DOMAIN val.v) |->
                                 JStr(SetToSeq(DOMAIN val.v)[i])])
      [] val.t = "str" -> Ok([i \in 1..Len(val.v) |-> JStr(<<val.v[i]>>)])
      [] OTHER -> Raise(NotIterable(val))

RECURSIVE SanitizeLoop(_, _, _)
SanitizeLoop(items, method, cleaned) ==
    IF items = <<>> THEN Ok(cleaned)
    ELSE LET one == SanitizeOne(Head(items), method)
         IN  IF one.ok THEN SanitizeLoop(Tail(items), method, Append(cleaned, one.val))
             ELSE Raise(one.err)

sanitize_test_cases(test_cases, method) ==
    LET items == Iterate(test_cases)
    IN  IF items.ok THEN SanitizeLoop(items.val, method, <<>>) ELSE Raise(items.err)

(***************************************************************************)
(* The requests and the upstream completion service.                       *)
(***************************************************************************)
\* most endpoints of one batch request
MaxEndpoints == 2

\* mutant: the method compared as the request spells it (.upper() left out)
UpperForgotten(m) == m

\* str.upper() on the methods a request may carry
Upper(m) ==
    CASE m \in {"get", "GET"}       -> "GET"
      [] m \in {"Delete", "DELETE"} -> "DELETE"
      [] m \in {"post", "POST"}     -> "POST"
      [] OTHER                      -> m

URL_OK  == "{{baseUrl}}/users/{id}?page=1"
URL_BAD == "http://[bad"

\* urlparse(url.replace("{{baseUrl}}", "")) raises ValueError on a malformed
\* bracketed host
UrlParseRaises(url) == url = URL_BAD

\* EndpointRequest (and the matching fields of SingleApiRequest)
Descriptors ==
    { [name |-> "list", method |-> "get",    url |-> URL_OK],
      [name |-> "drop", method |-> "Delete", url |-> URL_OK],
      [name |-> "add",  method |-> "POST",   url |-> URL_BAD] }

SingleRequests ==
    { [name |-> "list", method |-> "get",    url |-> "/users"],
      [name |-> "drop", method |-> "Delete", url |-> "/users/{id}"],
      [name |-> "add",  method |-> "POST",   url |-> "/users"] }

Batches == UNION {[1..n -> Descriptors] : n \in 1..MaxEndpoints}

Str(w) == <<QUOTE, w, QUOTE>>

\* completions the service may return
T_EMPTY == <<>>
T_PROSE == <<"Sorry", SP, "no", SP, "json", SP, "here">>
T_MALFORMED == <<LBRACE>> \o Str("test_cases") \o <<COLON, LBRACK, RBRACE>>
T_FENCED ==
    <<FENCE, JSONWORD, NL, LBRACE>> \o Str("test_cases") \o <<COLON, SP, LBRACK, LBRACE>>
    \o Str("test_case_id") \o <<COLON>> \o Str("TC01") \o <<COMMA, NL>>
    \o Str("request_variation") \o <<COLON, LBRACE>> \o Str("body") \o <<COLON, LBRACE>>
    \o Str("q") \o <<COLON, QUOTE, LT, "b", GT, QUOTE, RBRACE, RBRACE, COMMA>>
    \o Str("expected_status_code") \o <<COLON, "200", RBRACE, COMMA, NL, RBRACK, RBRACE,
         NL, FENCE>>
T_NOKEY == <<LBRACE>> \o Str("cases") \o <<COLON, LBRACK, RBRACK, RBRACE>>
T_RVNULL ==
    <<LBRACE>> \o Str("test_cases") \o <<COLON, LBRACK, LBRACE>>
    \o Str("request_variation") \o <<COLON, "null", RBRACE, RBRACK, RBRACE>>

T_TWOIDS ==
    <<LBRACE>> \o Str("test_cases") \o <<COLON, LBRACK, LBRACE>>
    \o Str("test_case_id") \o <<COLON>> \o Str("TC07") \o <<RBRACE, COMMA, LBRACE>>
    \o Str("test_case_id") \o <<COLON>> \o Str("TC07") \o <<RBRACE, RBRACK, RBRACE>>

Completions == {T_EMPTY, T_PROSE, T_MALFORMED, T_FENCED, T_NOKEY, T_RVNULL, T_TWOIDS}

\* texts for safe_extract_json on its own: JSON objects that are already clean,
\* the same objects with one trailing comma before a closing "}" or "]", and
\* texts that hold no object
PlainValues ==
    {Str("a"), <<"200">>, <<"null">>, <<LBRACE, RBRACE>>, <<LBRACK, RBRACK>>}

\* string literals that hold what the rewrites of lines 143-154 look for
TrickyStrings ==
    { <<QUOTE, "a", COMMA, RBRACE, QUOTE>>,
      <<QUOTE, COMMA, SP, RBRACK, QUOTE>>,
      <<QUOTE, FENCE, "a", QUOTE>>,
      <<QUOTE, "a", SP, FENCE, JSONWORD, QUOTE>> }

TextValues == PlainValues \cup TrickyStrings

\* the space between two tokens of a text
Gaps == {<<>>, <<SP>>, <<NL, SP>>}

ObjectOf(members, tail) == <<LBRACE>> \o Str("k") \o <<COLON>> \o members \o tail \o <<RBRACE>>
ArrayOf(v, w, tail)     == <<LBRACK>> \o v \o <<COMMA, NL>> \o w \o tail \o <<RBRACK>>

\* a clean text and the text with the trailing comma: [clean, text, plain]
TextCase(clean, text, plain) == [clean |-> clean, text |-> text, plain |-> plain]

TrailingCases ==
    {TextCase(ObjectOf(v, <<>>), ObjectOf(v, <<COMMA>> \o g), v \in PlainValues) :
        v \in TextValues, g \in Gaps}
    \cup {TextCase(ObjectOf(ArrayOf(v, w, <<>>), <<>>),
                   ObjectOf(ArrayOf(v, w, <<COMMA>> \o g), <<>>),
                   v \in PlainValues /\ w \in PlainValues) :
            v \in TextValues, w \in {Str("a"), <<LBRACE, RBRACE>>}, g \in Gaps}

TrailingTexts == {c.text : c \in TrailingCases}

\* the clean text that a text with a trailing comma was made from
CleanOf(text) == (CHOOSE c \in TrailingCases : c.text = text).clean
IsPlain(text) == (CHOOSE c \in TrailingCases : c.text = text).plain

CleanTexts ==
    {c.clean : c \in TrailingCases}
    \cup {<<SP>> \o ObjectOf(v, <<NL>>) \o <<NL>> : v \in TextValues}

NoObjectTexts ==
    {T_PROSE, <<SP, NL>>, <<FENCE>>, <<FENCE, JSONWORD, NL, FENCE>>, <<RBRACE, "a", LBRACE>>,
     <<LBRACK, RBRACK>>, <<LBRACE, "a">>, <<"a", RBRACE>>, <<QUOTE, "a", QUOTE>>}

ExtractTexts == {T_EMPTY} \cup NoObjectTexts \cup CleanTexts \cup TrailingTexts

\* safe_extract_json(text) for a text of the service: the table holds the value
\* of safe_extract_json for each text, computed once
ExtractionTable == [t \in Completions \cup ExtractTexts |-> safe_extract_json(t)]
ExtractionOf(text) == ExtractionTable[text]

\* what one call of groq_client.chat.completions.create does: it raises, or its
\* first choice carries a text
Returned(text) == [raised |-> FALSE, text |-> text]
Raised         == [raised |-> TRUE, text |-> <<>>]
UpstreamOutcomes == {Raised} \cup {Returned(t) : t \in Completions}

(***************************************************************************)
(* State of one request.                                                   *)
(***************************************************************************)
VARIABLES
    api_key,     \* whether GROQ_API_KEY is set in the environment of the process
    data,        \* the body of the request, where the handler parses it itself
    stream,      \* the text increments the service holds for a streamed completion
    route,       \* the route that was called
    endpoints,   \* payload.endpoints; for the single route the one request
    idx,         \* how many endpoints the outer for loop has taken
    attempt,     \* the variable of "for attempt in range(3)"
    pc,          \* where the handler stands
    ai_text,     \* the completion of the current attempt
    parsed,      \* the dict extracted in the current attempt
    test_cases,  \* line 220 / 254
    error,       \* line 221 / 255 / 259
    results,     \* line 217 / 261
    response,    \* what the handler returned, or the HTTP 500 of an exception
    calls,       \* history: the upstream calls of the current attempt, in order
    started,     \* history: attempts started for the current endpoint
    last,        \* history: how the latest attempt of the current endpoint ended
    repairs,     \* history: repair_with_ai calls for the current unit of work
    gens,        \* history: call_groq calls for the current unit of work
    outcomes     \* history: per appended result, its attempts and whether one succeeded

vars == <<api_key, data, stream, route, endpoints, idx, attempt, pc, ai_text, parsed, test_cases, error,
          results, response, calls, started, last, repairs, gens, outcomes>>

\* range(3)
Attempts == 3

NoResponse == [status |-> 0]
Http500    == [status |-> 500]

Init ==
    /\ api_key = TRUE
    /\ data = JNull
    /\ stream = <<>>
    /\ route \in {"batch", "single"}
    /\ IF route = "batch"
       THEN endpoints \in Batches /\ idx = 0 /\ pc = "for"
       ELSE endpoints \in {<<r>> : r \in SingleRequests} /\ idx = 1 /\ pc = "single_call"
    /\ attempt = 0
    /\ ai_text = <<>>
    /\ parsed = JNull
    /\ test_cases = <<>>
    /\ error = None
    /\ results = <<>>
    /\ response = NoResponse
    /\ calls = <<>>
    /\ started = 0
    /\ last = "none"
    /\ repairs = 0
    /\ gens = 0
    /\ outcomes = <<>>

Endpoint == endpoints[idx]

\* parsed.get("test_cases", [])
ParsedTestCases(p) == DictGet(p, K_TEST_CASES, EmptyList)

(***************************************************************************)
(* POST /testing/generate                                                  *)
(***************************************************************************)
\* mutant: "except ValueError" in place of "except Exception"
CaughtValueErrorOnly(msg) == msg \in {E_EMPTY, E_NOJSON, E_DECODE, E_URL}

\* "except Exception" of line 258 catches whatever the attempt raised
Caught(msg) == TRUE

\* mutant: only a JSONDecodeError is sent to the repair call
RoutedOnlyMalformed(msg) == msg = E_DECODE

\* "except Exception" of line 251 sends every failure of safe_extract_json to
\* repair_with_ai
RoutedToRepair(msg) == TRUE

\* mutant: range(4) in place of range(3)
HandleException_FourAttempts(msg) ==
    /\ ai_text' = <<>>
    /\ parsed' = JNull
    /\ IF Caught(msg)
       THEN /\ error' = msg
            /\ last' = "raised"
            /\ IF attempt + 1 < Attempts + 1
               THEN attempt' = attempt + 1 /\ pc' = "try"
               ELSE attempt' = attempt /\ pc' = "append"
            /\ UNCHANGED response
       ELSE /\ pc' = "raised"
            /\ response' = Http500
            /\ UNCHANGED <<error, last, attempt>>

\* mutant: the exception of the last attempt is raised again
HandleException_Reraise(msg) ==
    /\ ai_text' = <<>>
    /\ parsed' = JNull
    /\ IF Caught(msg) /\ attempt + 1 < Attempts
       THEN /\ error' = msg
            /\ last' = "raised"
            /\ attempt' = attempt + 1 /\ pc' = "try"
            /\ UNCHANGED response
       ELSE /\ pc' = "raised"
            /\ response' = Http500
            /\ UNCHANGED <<error, last, attempt>>

\* lines 258-259 and the loop of line 223: the error text is kept and the next
\* attempt starts, or the loop ends after the third; an exception that the
\* handler does not catch leaves the route as an HTTP 500.  ai_text and parsed
\* are written before they are read in every attempt, so they are cleared here.
HandleException(msg) ==
    /\ ai_text' = <<>>
    /\ parsed' = JNull
    /\ IF Caught(msg)
       THEN /\ error' = msg
            /\ last' = "raised"
            /\ IF attempt + 1 < Attempts
               THEN attempt' = attempt + 1 /\ pc' = "try"
               ELSE attempt' = attempt /\ pc' = "append"
            /\ UNCHANGED response
       ELSE /\ pc' = "raised"
            /\ response' = Http500
            /\ UNCHANGED <<error, last, attempt>>

\* mutant: test_cases and error initialised once, before the outer loop
NextEndpoint_NoReset ==
    /\ route = "batch" /\ pc = "for" /\ idx < Len(endpoints)
    /\ idx' = idx + 1
    /\ attempt' = 0
    /\ pc' = "try"
    /\ calls' = <<>> /\ started' = 0 /\ last' = "none" /\ repairs' = 0 /\ gens' = 0
    /\ UNCHANGED <<api_key, data, stream, route, endpoints, ai_text, parsed, test_cases,
                   error, results, response, outcomes>>

\* lines 219-223: the next endpoint of the batch, its locals fresh
NextEndpoint ==
    /\ route = "batch" /\ pc = "for" /\ idx < Len(endpoints)
    /\ idx' = idx + 1
    /\ test_cases' = <<>>
    /\ error' = None
    /\ attempt' = 0
    /\ pc' = "try"
    /\ calls' = <<>> /\ started' = 0 /\ last' = "none" /\ repairs' = 0 /\ gens' = 0
    /\ UNCHANGED <<api_key, data, stream, route, endpoints, ai_text, parsed, results,
                   response, outcomes>>

\* lines 224-245: an attempt starts; building the descriptor may raise
BeginAttempt ==
    /\ pc = "try"
    /\ started' = started + 1
    /\ calls' = <<>>
    /\ IF UrlParseRaises(Endpoint.url)
       THEN HandleException(E_URL)
       ELSE pc' = "call_groq" /\ UNCHANGED <<ai_text, parsed, error, last, attempt, response>>
    /\ UNCHANGED <<api_key, data, stream, route, endpoints, idx, test_cases, results,
                   repairs, gens, outcomes>>

\* mutant: a completion call that raised is made once more before it counts
CallGroq_Retrying ==
    /\ pc = "call_groq"
    /\ \E o \in UpstreamOutcomes :
        /\ calls' = Append(calls, [kind |-> "generate", out |-> o])
        /\ gens' = gens + 1
        /\ IF o.raised
           THEN IF calls = <<>>
                THEN UNCHANGED <<pc, ai_text, parsed, error, last, attempt, response>>
                ELSE HandleException(E_UPSTREAM)
           ELSE /\ ai_text' = o.text
                /\ pc' = "extract"
                /\ UNCHANGED <<parsed, error, last, attempt, response>>
    /\ UNCHANGED <<api_key, data, stream, route, endpoints, idx, test_cases, results,
                   started, repairs, outcomes>>

\* line 247: call_groq(build_prompt(api))
CallGroq ==
    /\ pc = "call_groq"
    /\ \E o \in UpstreamOutcomes :
        /\ calls' = Append(calls, [kind |-> "generate", out |-> o])
        /\ gens' = gens + 1
        /\ IF o.raised
           THEN HandleException(E_UPSTREAM)
           ELSE /\ ai_text' = o.text
                /\ pc' = "extract"
                /\ UNCHANGED <<parsed, error, last, attempt, response>>
    /\ UNCHANGED <<api_key, data, stream, route, endpoints, idx, test_cases, results,
                   started, repairs, outcomes>>

\* lines 249-251: safe_extract_json(ai_text); its failure goes to the repair call
Extract ==
    /\ pc = "extract"
    /\ LET r == ExtractionOf(ai_text)
       IN  IF r.ok
           THEN parsed' = r.val /\ pc' = "sanitize"
                /\ UNCHANGED <<ai_text, error, last, attempt, response>>
           ELSE IF RoutedToRepair(r.err)
                THEN pc' = "repair"
                     /\ UNCHANGED <<ai_text, parsed, error, last, attempt, response>>
                ELSE HandleException(r.err)
    /\ UNCHANGED <<api_key, data, stream, route, endpoints, idx, test_cases, results,
                   calls, started, repairs, gens, outcomes>>

\* mutant: a repaired text that does not extract is sent to the repair call again
RepairWithAi_Again ==
    /\ pc = "repair"
    /\ \E o \in UpstreamOutcomes :
        /\ calls' = Append(calls, [kind |-> "repair", out |-> o])
        /\ repairs' = repairs + 1
        /\ IF o.raised
           THEN HandleException(E_UPSTREAM)
           ELSE LET r == ExtractionOf(o.text)
                IN  IF r.ok
                    THEN parsed' = r.val /\ pc' = "sanitize"
                         /\ UNCHANGED <<ai_text, error, last, attempt, response>>
                    ELSE pc' = "repair"
                         /\ UNCHANGED <<ai_text, parsed, error, last, attempt, response>>
    /\ UNCHANGED <<api_key, data, stream, route, endpoints, idx, test_cases, results,
                   started, gens, outcomes>>

\* line 252: repair_with_ai(ai_text): one upstream call, then safe_extract_json
RepairWithAi ==
    /\ pc = "repair"
    /\ \E o \in UpstreamOutcomes :
        /\ calls' = Append(calls, [kind |-> "repair", out |-> o])
        /\ repairs' = repairs + 1
        /\ IF o.raised
           THEN HandleException(E_UPSTREAM)
           ELSE LET r == ExtractionOf(o.text)
                IN  IF r.ok
                    THEN parsed' = r.val /\ pc' = "sanitize"
                         /\ UNCHANGED <<ai_text, error, last, attempt, response>>
                    ELSE HandleException(r.err)
    /\ UNCHANGED <<api_key, data, stream, route, endpoints, idx, test_cases, results,
                   started, gens, outcomes>>

\* mutant: line 255 (error = None) left out
Sanitize_KeepError ==
    /\ pc = "sanitize"
    /\ LET r == IF parsed.t = "obj"
                THEN sanitize_test_cases(ParsedTestCases(parsed), Upper(Endpoint.method))
                ELSE Raise(NoAttr(parsed, "get"))
       IN  IF r.ok
           THEN /\ test_cases' = r.val
                /\ last' = "succeeded"
                /\ pc' = "append"
                /\ ai_text' = <<>> /\ parsed' = JNull
                /\ UNCHANGED <<error, attempt, response>>
           ELSE HandleException(r.err) /\ UNCHANGED test_cases
    /\ UNCHANGED <<api_key, data, stream, route, endpoints, idx, results, calls, started,
                   repairs, gens, outcomes>>

\* lines 254-256: sanitize, clear the error, leave the retry loop
Sanitize ==
    /\ pc = "sanitize"
    /\ LET r == IF parsed.t = "obj"
                THEN sanitize_test_cases(ParsedTestCases(parsed), Upper(Endpoint.method))
                ELSE Raise(NoAttr(parsed, "get"))
       IN  IF r.ok
           THEN /\ test_cases' = r.val
                /\ error' = None
                /\ last' = "succeeded"
                /\ pc' = "append"
                /\ ai_text' = <<>> /\ parsed' = JNull
                /\ UNCHANGED <<attempt, response>>
           ELSE HandleException(r.err) /\ UNCHANGED test_cases
    /\ UNCHANGED <<api_key, data, stream, route, endpoints, idx, results, calls, started,
                   repairs, gens, outcomes>>

\* mutant: results.insert(0, ...) in place of results.append(...)
AppendResult_Prepend ==
    /\ pc = "append"
    /\ results' = <<[api_name   |-> Endpoint.name,
                     method     |-> Endpoint.method,
                     endpoint   |-> Endpoint.url,
                     test_cases |-> test_cases,
                     error      |-> error]>> \o results
    /\ outcomes' = <<[attempts |-> started, succeeded |-> last = "succeeded"]>> \o outcomes
    /\ pc' = "for"
    /\ UNCHANGED <<api_key, data, stream, route, endpoints, idx, attempt, ai_text,
                   parsed, test_cases, error, response, calls, started, last, repairs,
                   gens>>

\* lines 261-267
AppendResult ==
    /\ pc = "append"
    /\ results' = Append(results, [api_name   |-> Endpoint.name,
                                   method     |-> Endpoint.method,
                                   endpoint   |-> Endpoint.url,
                                   test_cases |-> test_cases,
                                   error      |-> error])
    /\ outcomes' = Append(outcomes, [attempts |-> started, succeeded |-> last = "succeeded"])
    /\ pc' = "for"
    /\ UNCHANGED <<api_key, data, stream, route, endpoints, idx, attempt, ai_text,
                   parsed, test_cases, error, response, calls, started, last, repairs,
                   gens>>

\* lines 269-272
Return ==
    /\ route = "batch" /\ pc = "for" /\ idx = Len(endpoints)
    /\ response' = [status |-> 200, total_apis |-> Len(results), results |-> results]
    /\ pc' = "done"
    /\ UNCHANGED <<api_key, data, stream, route, endpoints, idx, attempt, ai_text,
                   parsed, test_cases, error, results, calls, started, last, repairs,
                   gens, outcomes>>

(***************************************************************************)
(* POST /testing/generate-single: no retry loop, no except clause around   *)
(* the pipeline; an exception leaves the handler (HTTP 500).               *)
(***************************************************************************)
\* mutant: the failure is caught and reported in the body of a normal response
Propagate_AsErrorBody ==
    /\ pc' = "done"
    /\ response' = [status     |-> 200,
                    api_name   |-> Endpoint.name,
                    method     |-> Endpoint.method,
                    endpoint   |-> Endpoint.url,
                    test_cases |-> <<>>]
    /\ ai_text' = <<>>
    /\ parsed' = JNull

Propagate ==
    /\ pc' = "raised"
    /\ response' = Http500
    /\ ai_text' = <<>>
    /\ parsed' = JNull

\* line 280
SingleCallGroq ==
    /\ pc = "single_call"
    /\ \E o \in UpstreamOutcomes :
        /\ calls' = Append(calls, [kind |-> "generate", out |-> o])
        /\ gens' = gens + 1
        /\ IF o.raised
           THEN Propagate
           ELSE ai_text' = o.text /\ pc' = "single_extract" /\ UNCHANGED <<parsed, response>>
    /\ UNCHANGED <<api_key, data, stream, route, endpoints, idx, attempt, test_cases,
                   error, results, started, last, repairs, outcomes>>

\* lines 282-284
SingleExtract ==
    /\ pc = "single_extract"
    /\ LET r == ExtractionOf(ai_text)
       IN  IF r.ok
           THEN parsed' = r.val /\ pc' = "single_sanitize" /\ UNCHANGED <<ai_text, response>>
           ELSE IF RoutedToRepair(r.err)
                THEN pc' = "single_repair" /\ UNCHANGED <<ai_text, parsed, response>>
                ELSE Propagate
    /\ UNCHANGED <<api_key, data, stream, route, endpoints, idx, attempt, test_cases,
                   error, results, calls, started, last, repairs, gens, outcomes>>

\* line 285
SingleRepair ==
    /\ pc = "single_repair"
    /\ \E o \in UpstreamOutcomes :
        /\ calls' = Append(calls, [kind |-> "repair", out |-> o])
        /\ repairs' = repairs + 1
        /\ IF o.raised
           THEN Propagate
           ELSE LET r == ExtractionOf(o.text)
                IN  IF r.ok
                    THEN parsed' = r.val /\ pc' = "single_sanitize"
                         /\ UNCHANGED <<ai_text, response>>
                    ELSE Propagate
    /\ UNCHANGED <<api_key, data, stream, route, endpoints, idx, attempt, test_cases,
                   error, results, started, last, gens, outcomes>>

\* lines 287-294
SingleSanitize ==
    /\ pc = "single_sanitize"
    /\ LET r == IF parsed.t = "obj"
                THEN sanitize_test_cases(ParsedTestCases(parsed), Upper(Endpoint.method))
                ELSE Raise(NoAttr(parsed, "get"))
       IN  IF r.ok
           THEN /\ test_cases' = r.val
                /\ response' = [status     |-> 200,
                                api_name   |-> Endpoint.name,
                                method     |-> Endpoint.method,
                                endpoint   |-> Endpoint.url,
                                test_cases |-> r.val]
                /\ pc' = "done"
                /\ ai_text' = <<>> /\ parsed' = JNull
           ELSE Propagate /\ UNCHANGED test_cases
    /\ UNCHANGED <<api_key, data, stream, route, endpoints, idx, attempt, error, results,
                   calls, started, last, repairs, gens, outcomes>>

Next ==
    \/ NextEndpoint
    \/ BeginAttempt
    \/ CallGroq
    \/ Extract
    \/ RepairWithAi
    \/ Sanitize
    \/ AppendResult
    \/ Return
    \/ SingleCallGroq
    \/ SingleExtract
    \/ SingleRepair
    \/ SingleSanitize

Spec == Init /\ [][Next]_vars

\* the batch route on its own, for the property that it ends.  Whether an
\* endpoint ends does not depend on its method: the batches are of an endpoint
\* whose request can be built and one whose URL is rejected.
FairDescriptors == {d \in Descriptors : d.name \in {"list", "add"}}

FairInit ==
    /\ Init
    /\ route = "batch"
    /\ \A i \in 1..Len(endpoints) : endpoints[i] \in FairDescriptors

BatchNext ==
    \/ NextEndpoint
    \/ BeginAttempt
    \/ CallGroq
    \/ Extract
    \/ RepairWithAi
    \/ Sanitize
    \/ AppendResult
    \/ Return

\* the handler runs to its end: every statement that can run is run, and every
\* upstream call returns or raises
FairSpec == FairInit /\ [][BatchNext]_vars /\ WF_vars(BatchNext)

(***************************************************************************)
(* sanitize_test_cases on its own: the argument is any value that          *)
(* parsed.get("test_cases", []) can be, the method is the upper-cased one. *)
(***************************************************************************)
\* most records of one argument list
MaxCases == 2

Obj1(k, val) == JObj(k :> val)

R_EMPTY    == EmptyDict
R_FULL     ==
    JObj(K_ID :> JStr(<<"TC01">>) @@ K_CATEGORY :> JStr(<<"positive">>)
         @@ K_NAME :> JStr(<<"create">>)
         @@ K_RV :> JObj(K_HEADERS :> Obj1(<<"Accept">>, JStr(<<"json">>))
                         @@ K_BODY :> Obj1(<<"q">>, JStr(<<LT, "b", GT>>)))
         @@ K_STATUS :> JNum("200") @@ K_BEHAVIOR :> JStr(<<"created">>))
R_BODYSTR  == Obj1(K_RV, Obj1(K_BODY, JStr(<<LT, "raw", GT>>)))
R_EXTRA    == JObj(K_RV :> EmptyDict @@ <<"priority">> :> JStr(<<"high">>))
R_RVNULL   == Obj1(K_RV, JNull)
R_RVSTR    == Obj1(K_RV, JStr(<<"none">>))
R_HDRNULL  == Obj1(K_RV, Obj1(K_HEADERS, JNull))
R_NULL     == JNull
R_STR      == JStr(<<"TC01">>)

RecordPool ==
    {R_EMPTY, R_FULL, R_BODYSTR, R_EXTRA, R_RVNULL, R_RVSTR, R_HDRNULL, R_NULL, R_STR}

SanitizerArguments ==
    {JArr(cs) : cs \in UNION {[1..n -> RecordPool] : n \in 0..MaxCases}}
    \cup {JNull, JStr(<<"none">>), R_FULL}

SanitizerMethods == {"GET", "DELETE", "POST", "PUT"}

SanitizeInit ==
    /\ api_key = TRUE
    /\ data = JNull
    /\ stream = <<>>
    /\ route = "sanitizer"
    /\ pc = "sanitize_call"
    /\ parsed \in SanitizerArguments
    /\ endpoints \in {<<[name |-> "unit", method |-> m, url |-> ""]>> : m \in SanitizerMethods}
    /\ idx = 1
    /\ attempt = 0
    /\ ai_text = <<>>
    /\ test_cases = <<>>
    /\ error = None
    /\ results = <<>>
    /\ response = NoResponse
    /\ calls = <<>>
    /\ started = 0
    /\ last = "none"
    /\ repairs = 0
    /\ gens = 0
    /\ outcomes = <<>>

\* one call sanitize_test_cases(parsed, method): it returns, or it raises
ApplySanitizer ==
    /\ pc = "sanitize_call"
    /\ LET r == sanitize_test_cases(parsed, Endpoint.method)
       IN  IF r.ok
           THEN test_cases' = r.val /\ pc' = "sanitize_returned" /\ UNCHANGED error
           ELSE error' = r.err /\ pc' = "sanitize_raised" /\ UNCHANGED test_cases
    /\ UNCHANGED <<api_key, data, stream, route, endpoints, idx, attempt, ai_text,
                   parsed, results, response, calls, started, last, repairs, gens,
                   outcomes>>

SanitizeNext == ApplySanitizer

SanitizeSpec == SanitizeInit /\ [][SanitizeNext]_vars

(***************************************************************************)
(* safe_extract_json on its own, and as the first step after call_groq has *)
(* returned in an attempt of the batch route (lines 247-251).              *)
(***************************************************************************)
ExtractInit ==
    /\ api_key = TRUE
    /\ data = JNull
    /\ stream = <<>>
    /\ ai_text \in ExtractTexts
    /\ \/ /\ route = "extractor" /\ pc = "extract_call"
          /\ endpoints = <<>> /\ idx = 0
          /\ calls = <<>> /\ started = 0 /\ gens = 0
       \/ /\ route = "batch" /\ pc = "extract"
          /\ endpoints \in {<<e>> : e \in {d \in Descriptors : ~UrlParseRaises(d.url)}}
          /\ idx = 1
          /\ calls = <<[kind |-> "generate", out |-> Returned(ai_text)]>>
          /\ started = 1 /\ gens = 1
    /\ attempt = 0
    /\ parsed = JNull
    /\ test_cases = <<>>
    /\ error = None
    /\ results = <<>>
    /\ response = NoResponse
    /\ last = "none"
    /\ repairs = 0
    /\ outcomes = <<>>

\* one call safe_extract_json(ai_text): it returns a value, or it raises
ApplyExtract ==
    /\ pc = "extract_call"
    /\ LET r == ExtractionOf(ai_text)
       IN  IF r.ok
           THEN parsed' = r.val /\ pc' = "extract_returned" /\ UNCHANGED error
           ELSE error' = r.err /\ pc' = "extract_raised" /\ UNCHANGED parsed
    /\ UNCHANGED <<api_key, data, stream, route, endpoints, idx, attempt, ai_text,
                   test_cases, results, response, calls, started, last, repairs, gens,
                   outcomes>>

ExtractNext ==
    \/ ApplyExtract
    \/ Extract

ExtractSpec == ExtractInit /\ [][ExtractNext]_vars

(***************************************************************************)
(* POST /generate_test_cases (src/test_scenarios.py): one completion per   *)
(* scenario, no retry; the handler parses the request body itself.  The    *)
(* empty completion stands for "" here.                                    *)
(***************************************************************************)
\* most scenarios of one request
MaxScenarios == 2

DOT == "."
DigitRuns == {"1", "2"}

\* a request body that is not JSON: request.json() raises on it
BODY_INVALID == [t |-> "invalid"]

K_SCENARIOS == <<"test_scenarios">>
K_TCID      == <<"testCaseID">>
K_ERROR     == <<"error">>

\* bool(val) of Python is False
Falsy(val) ==
    \/ val.t = "null"
    \/ val.t = "bool" /\ ~val.v
    \/ val.t = "num" /\ val.v = "0"
    \/ val.t \in {"str", "arr", "obj"} /\ val.v = <<>>

\* scenario strings of a request
SC_LOGIN1 == <<"1", DOT, SP, "login">>
SC_LOGIN2 == <<"2", DOT, SP, SP, "login", SP>>
SC_LOGOUT == <<"2", DOT, "logout">>
SC_PLAIN  == <<SP, "1", DOT, SP, "login">>

ScenarioStrings == {SC_LOGIN1, SC_LOGIN2, SC_LOGOUT, SC_PLAIN}

ScenarioLists ==
    UNION {[1..n -> {JStr(sc) : sc \in ScenarioStrings}] : n \in 1..MaxScenarios}

ScenarioBodies ==
    {BODY_INVALID, EmptyDict, EmptyList, Obj1(K_SCENARIOS, EmptyList),
     Obj1(K_SCENARIOS, JNum("200"))}
    \cup {Obj1(K_SCENARIOS, JArr(l)) : l \in ScenarioLists}

\* re.sub(r'^\d+\.\s*', '', text): digits at the very start, a period and the
\* whitespace after it are removed
StripNumbering(text) ==
    IF Len(text) >= 2 /\ text[1] \in DigitRuns /\ text[2] = DOT
    THEN SubSeq(text, SkipWs(text, 3), Len(text))
    ELSE text

\* line 110
ScenarioText(scenario) == Strip(StripNumbering(scenario.v))

\* the decimal digits of a natural number
Digit(d) ==
    CASE d = 0 -> "0" [] d = 1 -> "1" [] d = 2 -> "2" [] d = 3 -> "3" [] d = 4 -> "4"
      [] d = 5 -> "5" [] d = 6 -> "6" [] d = 7 -> "7" [] d = 8 -> "8" [] OTHER -> "9"

RECURSIVE DigitsOf(_)
DigitsOf(i) == IF i < 10 THEN <<Digit(i)>> ELSE DigitsOf(i \div 10) \o <<Digit(i % 10)>>

RECURSIVE ZeroPad(_, _)
ZeroPad(ds, width) == IF Len(ds) >= width THEN ds ELSE ZeroPad(<<"0">> \o ds, width)

\* f"TC{i:03d}"
TestCaseId(i) == <<"TC">> \o ZeroPad(DigitsOf(i), 3)

\* the texts of the exceptions of lines 198-206
E_NOTCONTAINER(val) == <<"argument of type", TypeName(val), "is not iterable">>
E_STRINDEX  == <<"string indices must be integers">>
E_LISTINDEX == <<"list indices must be integers or slices, not str">>
E_NOASSIGN(val) ==
    IF val.t = "arr" THEN E_LISTINDEX
    ELSE <<TypeName(val), "object does not support item assignment">>

\* the one-record lists of lines 208, 214 and 220
InvalidFormat      == <<Obj1(K_ERROR, JStr(<<"Invalid response format from API">>))>>
FailedToParse(msg) == <<Obj1(K_ERROR, JStr(<<"Failed to parse test cases:">> \o msg))>>
FailedToGenerate(msg) ==
    <<Obj1(K_ERROR, JStr(<<"Failed to generate test cases:">> \o msg))>>

RECURSIVE RenumberFrom(_, _, _)
RenumberFrom(cases, i, done) ==
    IF cases = <<>> THEN Ok(done)
    ELSE IF Head(cases).t # "obj" THEN Raise(E_NOASSIGN(Head(cases)))
    ELSE RenumberFrom(Tail(cases), i + 1,
                      Append(done, DictSet(Head(cases), K_TCID, JStr(TestCaseId(i)))))

\* mutant: enumerate(...) without its start argument
Renumber_FromZero(cases) == RenumberFrom(cases, 0, <<>>)

\* lines 203-204: for i, tc in enumerate(response_data['test_cases'], 1)
Renumber(cases) == RenumberFrom(cases, 1, <<>>)

\* lines 196-222 for a completion text: the list that is stored for the scenario
ScenarioCases(text) ==
    LET r == json_loads(text)
        response_data == r.val
    IN  IF ~r.ok THEN FailedToParse(r.err)
        ELSE CASE response_data.t = "obj" ->
                    IF K_TEST_CASES \in DOMAIN response_data.v
                       /\ response_data.v[K_TEST_CASES].t = "arr"
                    THEN LET cases == Renumber(response_data.v[K_TEST_CASES].v)
                         IN  IF cases.ok THEN cases.val ELSE FailedToGenerate(cases.err)
                    ELSE InvalidFormat
               [] response_data.t = "arr" ->
                    IF \E i \in 1..Len(response_data.v) :
                           response_data.v[i] = JStr(K_TEST_CASES)
                    THEN FailedToGenerate(E_LISTINDEX)
                    ELSE InvalidFormat
               [] response_data.t = "str" ->
                    IF \E i \in 1..Len(response_data.v) :
                           response_data.v[i] = K_TEST_CASES[1]
                    THEN FailedToGenerate(E_STRINDEX)
                    ELSE InvalidFormat
               [] OTHER -> FailedToGenerate(E_NOTCONTAINER(response_data))

\* completions of the service on this route
S_THREE ==
    <<LBRACE>> \o Str("test_cases") \o <<COLON, LBRACK, LBRACE>>
    \o Str("testCaseID") \o <<COLON>> \o Str("TC007") \o <<RBRACE, COMMA, LBRACE, RBRACE,
         COMMA, NL, LBRACE>>
    \o Str("testCaseID") \o <<COLON>> \o Str("TC007") \o <<RBRACE, RBRACK, RBRACE>>
S_TWO ==
    <<LBRACE>> \o Str("test_cases") \o <<COLON, LBRACK, LBRACE, RBRACE, COMMA, LBRACE>>
    \o Str("testCaseID") \o <<COLON>> \o Str("TC001") \o <<RBRACE, RBRACK, RBRACE>>
S_NOCASES == <<LBRACE>> \o Str("test_cases") \o <<COLON, LBRACK, RBRACK, RBRACE>>
S_NOTLIST == <<LBRACE>> \o Str("test_cases") \o <<COLON>> \o Str("none") \o <<RBRACE>>
S_ARRAY   == <<LBRACK, LBRACE, RBRACE, RBRACK>>
S_STRREC  ==
    <<LBRACE>> \o Str("test_cases") \o <<COLON, LBRACK, LBRACE, RBRACE, COMMA>>
    \o Str("TC001") \o <<RBRACK, RBRACE>>
S_WORD    == Str("test_cases")
S_NUM     == <<"200">>

ScenarioCompletions ==
    {S_THREE, S_TWO, S_NOCASES, S_NOTLIST, S_ARRAY, S_STRREC, S_WORD, S_NUM,
     T_NOKEY, T_MALFORMED, T_EMPTY}

\* ScenarioCases for each completion, computed once
ScenarioCasesTable == [t \in ScenarioCompletions |-> ScenarioCases(t)]
ScenarioCasesOf(text) == ScenarioCasesTable[text]

ScenarioOutcomes == {Raised} \cup {Returned(t) : t \in ScenarioCompletions}

\* results[key] = cases on the dict of line 106, kept as the sequence of its items
\* in insertion order: a key that is there keeps its place
StoreResult(d, key, cases) ==
    IF \E i \in 1..Len(d) : d[i].scenario = key
    THEN [i \in 1..Len(d) |-> IF d[i].scenario = key
                              THEN [scenario |-> key, test_cases |-> cases]
                              ELSE d[i]]
    ELSE Append(d, [scenario |-> key, test_cases |-> cases])

ScenarioInit ==
    /\ api_key \in BOOLEAN
    /\ data \in ScenarioBodies
    /\ stream = <<>>
    /\ route = "scenario_cases"
    /\ endpoints = <<>>
    /\ idx = 0
    /\ attempt = 0
    /\ pc = "scn_request"
    /\ ai_text = <<>>
    /\ parsed = JNull
    /\ test_cases = <<>>
    /\ error = None
    /\ results = <<>>
    /\ response = NoResponse
    /\ calls = <<>>
    /\ started = 0
    /\ last = "none"
    /\ repairs = 0
    /\ gens = 0
    /\ outcomes = <<>>

\* data['test_scenarios'] of a request that passed line 99
Scenarios == data.v[K_SCENARIOS].v

\* lines 234-239: the except clause around the whole handler
ScenarioFailed(msg) ==
    [status |-> 500, error |-> "Failed to generate test cases", details |-> msg]

\* lines 94-108: the body is read, the list is checked, the client is built.  The
\* HTTPException of line 100 is raised inside the try block of line 94, and the
\* except Exception of line 234 turns it into the HTTP 500 of line 236.
ScenarioRequest ==
    /\ pc = "scn_request"
    /\ LET test_scenarios == DictGet(data, K_SCENARIOS, EmptyList)
       IN  CASE data = BODY_INVALID ->
                    response' = ScenarioFailed(E_DECODE) /\ pc' = "done"
             [] data # BODY_INVALID /\ data.t # "obj" ->
                    response' = ScenarioFailed(NoAttr(data, "get")) /\ pc' = "done"
             [] data.t = "obj" /\ Falsy(test_scenarios) ->
                    /\ response' = ScenarioFailed(<<"400", "No test scenarios provided">>)
                    /\ pc' = "done"
             [] data.t = "obj" /\ ~Falsy(test_scenarios) /\ ~api_key ->
                    /\ response' = ScenarioFailed(<<"GROQ_API_KEY environment variable is not set">>)
                    /\ pc' = "done"
             [] data.t = "obj" /\ ~Falsy(test_scenarios) /\ api_key
                  /\ test_scenarios.t # "arr" ->
                    /\ response' = ScenarioFailed(NotIterable(test_scenarios))
                    /\ pc' = "done"
             [] OTHER -> pc' = "scn_for" /\ UNCHANGED response
    /\ UNCHANGED <<api_key, data, stream, route, endpoints, idx, attempt, ai_text,
                   parsed, test_cases, error, results, calls, started, last, repairs,
                   gens, outcomes>>

\* lines 108-194 and 218-222: the next scenario and its one completion call
ScenarioCall ==
    /\ pc = "scn_for" /\ idx < Len(Scenarios)
    /\ idx' = idx + 1
    /\ gens' = gens + 1
    /\ \E o \in ScenarioOutcomes :
        /\ outcomes' = Append(outcomes, o)
        /\ IF o.raised
           THEN /\ results' = StoreResult(results, ScenarioText(Scenarios[idx + 1]),
                                          FailedToGenerate(E_UPSTREAM))
                /\ pc' = "scn_for"
                /\ UNCHANGED ai_text
           ELSE /\ ai_text' = o.text
                /\ pc' = "scn_parse"
                /\ UNCHANGED results
    /\ UNCHANGED <<api_key, data, stream, route, endpoints, attempt, parsed, test_cases,
                   error, response, calls, started, last, repairs>>

\* lines 196-222: the completion is parsed and the list for the scenario is stored
ScenarioParse ==
    /\ pc = "scn_parse"
    /\ results' = StoreResult(results, ScenarioText(Scenarios[idx]), ScenarioCasesOf(ai_text))
    /\ ai_text' = <<>>
    /\ pc' = "scn_for"
    /\ UNCHANGED <<api_key, data, stream, route, endpoints, idx, attempt, parsed,
                   test_cases, error, response, calls, started, last, repairs, gens,
                   outcomes>>

\* lines 225-232
ScenarioReturn ==
    /\ pc = "scn_for" /\ idx = Len(Scenarios)
    /\ response' = [status |-> 200, results |-> results]
    /\ pc' = "done"
    /\ UNCHANGED <<api_key, data, stream, route, endpoints, idx, attempt, ai_text,
                   parsed, test_cases, error, results, calls, started, last, repairs,
                   gens, outcomes>>

ScenarioNext ==
    \/ ScenarioRequest
    \/ ScenarioCall
    \/ ScenarioParse
    \/ ScenarioReturn

ScenarioSpec == ScenarioInit /\ [][ScenarioNext]_vars

(***************************************************************************)
(* POST /generate and POST /stream (src/app.py).  groq_client is None when *)
(* GROQ_API_KEY was not set as the module was loaded (lines 34-39).        *)
(***************************************************************************)
\* most text increments of one streamed completion
MaxChunks == 2

K_TESTCASE == <<"testcase">>
K_PLATFORM == <<"platform">>
K_PROMPT   == <<"prompt">>

GenerateBodies ==
    {BODY_INVALID, EmptyDict, EmptyList, JNum("200"),
     Obj1(K_TESTCASE, JStr(<<>>)),
     Obj1(K_TESTCASE, JStr(<<"login">>)),
     JObj(K_TESTCASE :> JStr(<<"login">>) @@ K_PLATFORM :> JStr(<<"mobile">>))}

StreamBodies ==
    {BODY_INVALID, EmptyDict, EmptyList,
     Obj1(K_PROMPT, JStr(<<>>)), Obj1(K_PROMPT, JStr(<<"hi">>))}

\* chunk.choices[0].delta.content of the chunks of a stream; "" is an empty one
Increments == {<<>>, <<"a">>, <<"b">>}
Streams == UNION {[1..n -> Increments] : n \in 0..MaxChunks}

\* completions of the service on POST /generate
G_OBJECT ==
    <<LBRACE>> \o Str("testCases") \o <<COLON, LBRACK, LBRACE>>
    \o Str("testCaseID") \o <<COLON>> \o Str("TC001") \o <<RBRACE, RBRACK, RBRACE>>
G_PROSE_ARRAY ==
    <<"Here", COLON, NL, LBRACK, SP, LBRACE>>
    \o Str("testCaseID") \o <<COLON>> \o Str("TC001") \o <<RBRACE, NL, RBRACK, SP, "Done">>
G_PROSE_BADARRAY == <<"Sorry", SP, LBRACK, LBRACE, "no", RBRACE, RBRACK>>

GenerateCompletions ==
    {G_OBJECT, G_PROSE_ARRAY, G_PROSE_BADARRAY, T_PROSE, T_MALFORMED, T_EMPTY, T_FENCED}

GenerateOutcomes == {Raised} \cup {Returned(t) : t \in GenerateCompletions}

\* re.search(r'\[\s*\{.*\}\s*\]', text, re.DOTALL): the leftmost "[" that is
\* followed, after whitespace, by "{" and later by a "}" with, after whitespace, a
\* "]"; the match runs to the last such "]".  <<>> when there is no match.
FallbackSpan(text) ==
    LET closes(j) == {k \in (j + 1)..Len(text) :
                        /\ text[k] = RBRACE
                        /\ SkipWs(text, k + 1) <= Len(text)
                        /\ text[SkipWs(text, k + 1)] = RBRACK}
        starts == {i \in 1..Len(text) :
                        /\ text[i] = LBRACK
                        /\ SkipWs(text, i + 1) <= Len(text)
                        /\ text[SkipWs(text, i + 1)] = LBRACE
                        /\ closes(SkipWs(text, i + 1)) # {}}
    IN  IF starts = {} THEN <<>>
        ELSE LET i == MinOf(starts)
                 k == MaxOf(closes(SkipWs(text, i + 1)))
             IN  SubSeq(text, i, SkipWs(text, k + 1))

\* the responses of POST /generate
Generated(body)  == [status |-> 200, body |-> body]
InvalidPayload   == [status |-> 422, error |-> "Invalid JSON payload"]
GenerateFailed(type, msg) ==
    [status |-> 500, error |-> "Failed to generate test cases", type |-> type,
     message |-> msg]

\* lines 120-137 for a completion text: the parsed value, the value parsed from the
\* span of the fallback search, or the completion itself under "test_cases"; a
\* span that does not parse raises JSONDecodeError inside the handler of line
\* 124, which the except clause of line 132 answers
ParseCompletion(response_text) ==
    LET direct == json_loads(response_text)
        span   == FallbackSpan(response_text)
    IN  IF direct.ok THEN Generated(direct.val)
        ELSE IF span # <<>>
             THEN IF json_loads(span).ok THEN Generated(json_loads(span).val)
                  ELSE InvalidPayload
        ELSE Generated(Obj1(K_TEST_CASES, JStr(response_text)))

ParseCompletionTable == [t \in GenerateCompletions |-> ParseCompletion(t)]
ParseCompletionOf(text) == ParseCompletionTable[text]

\* the responses of POST /stream and of an exception that leaves a handler
BadRequest(detail) == [status |-> 400, detail |-> detail]
ServerError(msg)   == [status |-> 500, detail |-> msg]

AppInit ==
    /\ api_key \in BOOLEAN
    /\ route \in {"generate", "stream"}
    /\ IF route = "generate"
       THEN data \in GenerateBodies /\ stream = <<>> /\ pc = "gen_request"
       ELSE data \in StreamBodies /\ stream \in Streams /\ pc = "stream_text"
    /\ endpoints = <<>>
    /\ idx = 0
    /\ attempt = 0
    /\ ai_text = <<>>
    /\ parsed = JNull
    /\ test_cases = <<>>
    /\ error = None
    /\ results = <<>>
    /\ response = NoResponse
    /\ calls = <<>>
    /\ started = 0
    /\ last = "none"
    /\ repairs = 0
    /\ gens = 0
    /\ outcomes = <<>>

\* "testcase" not in data or not data["testcase"], for a dict or a list
NoTestcase(body) ==
    IF body.t = "obj" THEN K_TESTCASE \notin DOMAIN body.v \/ Falsy(body.v[K_TESTCASE])
    ELSE \A i \in 1..Len(body.v) : body.v[i] # JStr(K_TESTCASE)

\* lines 51-64: the body is read and checked.  The HTTPException of line 55 is
\* raised inside the try block of line 51; it is no JSONDecodeError, so the
\* except Exception of line 138 answers it with the JSONResponse of status 500.
GenerateRequest ==
    /\ pc = "gen_request"
    /\ CASE data = BODY_INVALID ->
                response' = InvalidPayload /\ pc' = "done"
         [] data # BODY_INVALID /\ data.t \notin {"obj", "arr"} ->
                /\ response' = GenerateFailed("TypeError", E_NOTCONTAINER(data))
                /\ pc' = "done"
         [] data.t \in {"obj", "arr"} /\ NoTestcase(data) ->
                /\ response' = GenerateFailed("HTTPException",
                                              <<"400", "The 'testcase' field is required">>)
                /\ pc' = "done"
         [] data.t = "arr" /\ ~NoTestcase(data) ->
                response' = GenerateFailed("TypeError", E_LISTINDEX) /\ pc' = "done"
         [] data.t = "obj" /\ ~NoTestcase(data) /\ ~api_key ->
                /\ response' = GenerateFailed("HTTPException",
                                              <<"500", "Groq client not initialized">>)
                /\ pc' = "done"
         [] OTHER -> pc' = "gen_call" /\ UNCHANGED response
    /\ UNCHANGED <<api_key, data, stream, route, endpoints, idx, attempt, ai_text,
                   parsed, test_cases, error, results, calls, started, last, repairs,
                   gens, outcomes>>

\* lines 106-118: the one completion call
GenerateCall ==
    /\ pc = "gen_call"
    /\ gens' = gens + 1
    /\ \E o \in GenerateOutcomes :
        /\ calls' = Append(calls, [kind |-> "generate", out |-> o])
        /\ IF o.raised
           THEN /\ response' = GenerateFailed("APIConnectionError", E_UPSTREAM)
                /\ pc' = "done"
                /\ UNCHANGED ai_text
           ELSE /\ ai_text' = o.text
                /\ pc' = "gen_parse"
                /\ UNCHANGED response
    /\ UNCHANGED <<api_key, data, stream, route, endpoints, idx, attempt, parsed,
                   test_cases, error, results, started, last, repairs, outcomes>>

\* lines 120-137
GenerateParse ==
    /\ pc = "gen_parse"
    /\ response' = ParseCompletionOf(ai_text)
    /\ ai_text' = <<>>
    /\ pc' = "done"
    /\ UNCHANGED <<api_key, data, stream, route, endpoints, idx, attempt, parsed,
                   test_cases, error, results, calls, started, last, repairs, gens,
                   outcomes>>

\* lines 152-183.  Line 183 hands the async generator of lines 163-181 to
\* Response, not to a streaming response: Response renders its content as it
\* is constructed (bytes as they are, anything else through content.encode), an
\* async generator has no encode, and the AttributeError leaves the handler.  The
\* body of the generator never runs: no upstream call is made, no frame is sent.
StreamText ==
    /\ pc = "stream_text"
    /\ LET prompt == DictGet(data, K_PROMPT, JNull)
       IN  response' =
             CASE data = BODY_INVALID -> ServerError(E_DECODE)
               [] data # BODY_INVALID /\ data.t # "obj" -> ServerError(NoAttr(data, "get"))
               [] data.t = "obj" /\ Falsy(prompt) -> BadRequest("Prompt is required")
               [] data.t = "obj" /\ ~Falsy(prompt) /\ ~api_key ->
                      ServerError(<<"Groq client not initialized">>)
               [] OTHER -> ServerError(<<"async_generator", "object has no attribute", "encode">>)
    /\ pc' = "done"
    /\ UNCHANGED <<api_key, data, stream, route, endpoints, idx, attempt, ai_text,
                   parsed, test_cases, error, results, calls, started, last, repairs,
                   gens, outcomes>>

AppNext ==
    \/ GenerateRequest
    \/ GenerateCall
    \/ GenerateParse
    \/ StreamText

AppSpec == AppInit /\ [][AppNext]_vars

(***************************************************************************)
(* POST /playback (src/record.py).  A step is a dict of the recording: the *)
(* keys it may hold are url, xpath, action and value.  The browser is the  *)
(* environment: starting it, loading a page, finding an element and acting *)
(* on an element each succeed or raise.                                    *)
(***************************************************************************)
MaxSteps == 2

\* the value of a key that a dict does not hold
Missing == "#missing"

Step(url, xpath, action, value) ==
    [url |-> url, xpath |-> xpath, action |-> action, value |-> value]

StepPool ==
    { Step("u", "x", "click", Missing),
      Step("u", "x", "fill", "v"),
      Step(Missing, "x", "click", Missing),
      Step(Missing, "x", "fill", Missing),
      Step("u", Missing, "open", Missing),
      Step(Missing, "x", "hover", Missing),
      Step(Missing, "x", Missing, Missing) }

RECURSIVE StepLists(_)
StepLists(n) ==
    IF n = 0 THEN {<<>>}
    ELSE StepLists(n - 1) \cup {Append(l, st) : l \in {k \in StepLists(n - 1) : Len(k) = n - 1},
                                                st \in StepPool}

\* the payloads: a dict with the list under "steps", and a dict without the key
PlaybackPayloads == {[steps |-> l] : l \in StepLists(MaxSteps)} \cup {[name |-> "n"]}

E_KEY(key)  == <<"KeyError", key>>
E_INDEX     == <<"IndexError", "list index out of range">>
E_WEBDRIVER == <<"WebDriverException">>

\* what the browser does with the calls of one step
BrowserOutcomes == {"ok", "no_element", "action_raises"}

PlaybackCompleted == [status |-> 200, body |-> "Playback completed"]

PlaybackInit ==
    /\ api_key = TRUE
    /\ data \in PlaybackPayloads
    /\ stream = <<>>
    /\ route = "playback"
    /\ endpoints = <<>>
    /\ idx = 0
    /\ attempt = 0
    /\ pc = "play_start"
    /\ ai_text = <<>>
    /\ parsed = JNull
    /\ test_cases = <<>>
    /\ error = None
    /\ results = <<>>
    /\ response = NoResponse
    /\ calls = <<>>
    /\ started = 0
    /\ last = "none"
    /\ repairs = 0
    /\ gens = 0
    /\ outcomes = <<>>

\* an exception that leaves the handler: the framework answers 500
PlaybackRaise(err) ==
    /\ error' = err
    /\ response' = Http500
    /\ pc' = "done"

\* lines 14-25: the steps are read, the browser is started and the page of the
\* first step is loaded; nothing here is inside a try
PlaybackStart ==
    /\ pc = "play_start"
    /\ \E driver \in {"ok", "raises"}, page \in {"ok", "raises"} :
           IF "steps" \notin DOMAIN data THEN PlaybackRaise(E_KEY("steps"))
           ELSE IF driver = "raises" THEN PlaybackRaise(E_WEBDRIVER)
           ELSE IF data.steps = <<>> THEN PlaybackRaise(E_INDEX)
           ELSE IF data.steps[1].url = Missing THEN PlaybackRaise(E_KEY("url"))
           ELSE IF page = "raises" THEN PlaybackRaise(E_WEBDRIVER)
           ELSE pc' = "play_for" /\ UNCHANGED <<error, response>>
    /\ UNCHANGED <<api_key, data, stream, route, endpoints, idx, attempt, ai_text, parsed,
                   test_cases, results, calls, started, last, repairs, gens, outcomes>>

\* lines 29-38 for one step with the browser behaving as b: the calls made on
\* the browser and the exception raised, None without one
PlayStep(step, b) ==
    IF step.xpath = Missing THEN [done |-> <<>>, err |-> E_KEY("xpath")]
    ELSE IF b = "no_element" THEN [done |-> <<"find_element">>, err |-> E_WEBDRIVER]
    ELSE IF step.action = Missing THEN [done |-> <<"find_element">>, err |-> E_KEY("action")]
    ELSE IF step.action = "click"
         THEN [done |-> <<"find_element", "click">>,
               err |-> IF b = "action_raises" THEN E_WEBDRIVER ELSE None]
    ELSE IF step.action = "fill"
         THEN IF b = "action_raises"
              THEN [done |-> <<"find_element", "clear">>, err |-> E_WEBDRIVER]
              ELSE IF step.value = Missing
                   THEN [done |-> <<"find_element", "clear">>, err |-> E_KEY("value")]
                   ELSE [done |-> <<"find_element", "clear", "send_keys">>, err |-> None]
    ELSE [done |-> <<"find_element">>, err |-> None]

\* lines 27-41: one turn of the loop; an exception of the step is printed
PlaybackStep ==
    /\ pc = "play_for"
    /\ idx < Len(data.steps)
    /\ \E b \in BrowserOutcomes :
           LET r == PlayStep(data.steps[idx + 1], b)
           IN  /\ calls' = Append(calls, [step |-> idx + 1, done |-> r.done, err |-> r.err])
               /\ stream' = IF r.err = None THEN stream
                            ELSE Append(stream, <<"Playback error:">> \o r.err)
    /\ idx' = idx + 1
    /\ UNCHANGED <<api_key, data, route, endpoints, attempt, pc, ai_text, parsed, test_cases,
                   error, results, response, started, last, repairs, gens, outcomes>>

\* line 43
PlaybackReturn ==
    /\ pc = "play_for"
    /\ idx = Len(data.steps)
    /\ response' = PlaybackCompleted
    /\ pc' = "done"
    /\ UNCHANGED <<api_key, data, stream, route, endpoints, idx, attempt, ai_text, parsed,
                   test_cases, error, results, calls, started, last, repairs, gens, outcomes>>

PlaybackNext ==
    \/ PlaybackStart
    \/ PlaybackStep
    \/ PlaybackReturn

PlaybackSpec == PlaybackInit /\ [][PlaybackNext]_vars

(***************************************************************************)
(* Properties of the batch route.                                          *)
(***************************************************************************)
Batch == route = "batch"

\* result entry k is of an endpoint whose three attempts all failed
AllAttemptsFailed(k) == outcomes[k].attempts = Attempts /\ ~outcomes[k].succeeded

\* C1: POST /testing/generate never raises, whatever the upstream calls return or
\* raise: no exception leaves the handler, what it returns is the normal response,
\* and every endpoint whose 3 attempts all failed is reported with test_cases = []
\* and a non-null error text.
C1_BatchNeverRaises ==
    Batch =>
        /\ pc # "raised"
        /\ response.status # 500
        /\ (pc = "done" => response.status = 200)
        /\ \A k \in 1..Len(results) :
              AllAttemptsFailed(k) =>
                  results[k].test_cases = <<>> /\ results[k].error # None

\* C1 witness: a returned batch with an endpoint that failed on all three attempts,
\* the last of them in the sanitizer
C1_Witness ==
    /\ Batch /\ pc = "done" /\ response.status = 200
    /\ \E k \in 1..Len(response.results) :
          /\ AllAttemptsFailed(k)
          /\ response.results[k].error = NoAttr(JNull, "setdefault")

\* C2: the response of POST /testing/generate has exactly one entry per input
\* endpoint, in input order, each echoing name, method and url of its endpoint, and
\* total_apis is the number of input endpoints.
C2_OneEntryPerEndpointInOrder ==
    (Batch /\ pc = "done") =>
        /\ response.total_apis = Len(endpoints)
        /\ Len(response.results) = Len(endpoints)
        /\ \A i \in 1..Len(endpoints) :
              /\ response.results[i].api_name = endpoints[i].name
              /\ response.results[i].method = endpoints[i].method
              /\ response.results[i].endpoint = endpoints[i].url

\* C2 witness: a returned batch of two different endpoints, the first failed after
\* retries and the second succeeded
C2_Witness ==
    /\ Batch /\ pc = "done" /\ Len(endpoints) = 2
    /\ endpoints[1] # endpoints[2]
    /\ response.results[1].error # None
    /\ outcomes[2].succeeded /\ outcomes[2].attempts > 1

\* C3: each endpoint gets at most 3 attempts: an attempt starts only as the first
\* one or after the previous attempt raised, never after an attempt succeeded, and
\* never as a 4th.
C3_AtMostThreeAttempts ==
    [][started' > started =>
          /\ started' = started + 1
          /\ started < Attempts
          /\ (started = 0 \/ last = "raised")
          /\ last # "succeeded"]_vars

\* C3 witness: a third attempt has been started, after two that raised
C3_Witness == Batch /\ started = Attempts /\ pc = "call_groq" /\ last = "raised"

\* the result entry that the descriptor and the upstream calls of the final attempt
\* of an endpoint determine (log: the calls of that attempt, in order)
ExpectedEntry(desc, log) ==
    LET failure(msg) == [api_name |-> desc.name, method |-> desc.method,
                         endpoint |-> desc.url, test_cases |-> <<>>, error |-> msg]
        sanitized(p) == sanitize_test_cases(ParsedTestCases(p), Upper(desc.method))
        finish(p) == IF sanitized(p).ok
                     THEN [api_name |-> desc.name, method |-> desc.method,
                           endpoint |-> desc.url, test_cases |-> sanitized(p).val,
                           error |-> None]
                     ELSE failure(sanitized(p).err)
    IN  IF UrlParseRaises(desc.url) THEN failure(E_URL)
        ELSE IF log[1].out.raised THEN failure(E_UPSTREAM)
        ELSE IF ExtractionOf(log[1].out.text).ok
             THEN finish(ExtractionOf(log[1].out.text).val)
        ELSE IF log[2].out.raised THEN failure(E_UPSTREAM)
        ELSE IF ExtractionOf(log[2].out.text).ok
             THEN finish(ExtractionOf(log[2].out.text).val)
        ELSE failure(ExtractionOf(log[2].out.text).err)

\* C4: the result entry of an endpoint is determined by its own descriptor and the
\* upstream responses to its own calls, and an entry, once appended, is not changed
\* by what happens to the endpoints after it.
C4_Isolation ==
    /\ []((Batch /\ pc \in {"for", "done"} /\ idx >= 1) =>
              /\ Len(results) = idx
              /\ results[idx] = ExpectedEntry(endpoints[idx], calls))
    /\ [][\A k \in 1..Len(results) :
              Len(results') >= k /\ results'[k] = results[k]]_vars

\* C4 witness: a returned batch in which one endpoint failed on all three attempts
\* and its sibling, before or after it, has populated test cases
C4_Witness ==
    /\ Batch /\ pc = "done" /\ Len(results) = 2
    /\ \E j, k \in 1..2 :
          /\ j # k
          /\ AllAttemptsFailed(j) /\ results[j].error # None
          /\ results[k].test_cases # <<>> /\ results[k].error = None

\* C5: in every result entry error is null exactly when some attempt succeeded, an
\* entry never has both test cases and an error, and an endpoint with no successful
\* attempt reports no test cases.
C5_ErrorIffNoSuccess ==
    Batch =>
        \A k \in 1..Len(results) :
            /\ (results[k].error = None) <=> outcomes[k].succeeded
            /\ ~(results[k].test_cases # <<>> /\ results[k].error # None)
            /\ (~outcomes[k].succeeded => results[k].test_cases = <<>>)

\* C5 witness: an entry whose third attempt succeeded after two failures: test
\* cases, and no error left of the failed attempts
C5_Witness ==
    /\ Batch
    /\ \E k \in 1..Len(results) :
          /\ outcomes[k].succeeded /\ outcomes[k].attempts = Attempts
          /\ results[k].test_cases # <<>> /\ results[k].error = None

\* the latest upstream call of the current attempt was the repair call
LastCallIsRepair == calls # <<>> /\ calls[Len(calls)].kind = "repair"

\* ... and it failed: the call raised, or the text it returned does not extract
RepairFailed ==
    /\ LastCallIsRepair
    /\ LET o == calls[Len(calls)].out
       IN  o.raised \/ ~ExtractionOf(o.text).ok

\* where the handler stands once the retry loop of an endpoint is over
Reported == {"append", "for", "done"}

\* C6 as claimed: in the batch route the repair call is made at most once per
\* endpoint, and a failed repair makes the endpoint FAILED at once (its result is
\* reported, no further attempt is made).
C6_RepairOncePerEndpoint ==
    Batch => (repairs <= 1 /\ (RepairFailed => pc \in Reported))

\* C6 as amended: the repair call is made at most once per attempt, as the last
\* upstream call of the attempt; a failed repair fails the attempt, which is retried
\* while attempts remain, so an endpoint sees at most 3 repair calls and is reported
\* as failed only after its third attempt failed.
C6_RepairOncePerAttempt ==
    Batch =>
        /\ Len(calls) <= 2
        /\ \A i \in 1..Len(calls) :
              calls[i].kind = "repair" => (i = 2 /\ calls[1].kind = "generate")
        /\ repairs <= started /\ started <= Attempts
        /\ (RepairFailed => IF started < Attempts THEN pc = "try" ELSE pc \in Reported)
        /\ \A k \in 1..Len(results) :
              ~outcomes[k].succeeded => outcomes[k].attempts = Attempts

\* C6 witness: the repair call failed in each of the three attempts of an endpoint
C6_Witness == Batch /\ repairs = Attempts /\ RepairFailed /\ pc = "append"

Routes == {"batch", "single"}

\* C7 as claimed: the repair call is made only for a completion in which a JSON
\* span was found and failed to parse, not for an empty completion or one with no
\* span.
C7_OnlyMalformedRepaired ==
    (route \in Routes /\ pc \in {"repair", "single_repair"}) =>
        ExtractionOf(ai_text).err = E_DECODE

\* C7 as amended: in both routes every failure of safe_extract_json on the
\* completion (empty, no span, span that does not parse) is sent to the repair
\* call, and the repair call is made only after such a failure.
C7_EveryExtractionFailureRepaired ==
    route \in Routes =>
        /\ (pc \in {"repair", "single_repair"} => ~ExtractionOf(ai_text).ok)
        /\ (Len(calls) = 2 =>
              /\ calls[1].kind = "generate" /\ calls[2].kind = "repair"
              /\ ~calls[1].out.raised
              /\ ~ExtractionOf(calls[1].out.text).ok)
        /\ ((Len(calls) = 1 /\ ~calls[1].out.raised
               /\ ~ExtractionOf(calls[1].out.text).ok) =>
              pc \in {"extract", "single_extract", "repair", "single_repair"})

\* C7 witness: the repair call was made for an empty completion, and for one with
\* no JSON span
C7_Witness ==
    /\ route \in Routes /\ Len(calls) = 2 /\ calls[2].kind = "repair"
    /\ ExtractionOf(calls[1].out.text).err \in {E_EMPTY, E_NOJSON}

\* GET and DELETE as a request may spell them
BodylessSpellings == {"get", "GET", "Delete", "DELETE"}

NoBodyKey(cases) ==
    \A i \in 1..Len(cases) : K_BODY \notin DOMAIN cases[i].v[K_RV].v

\* C8: every test case returned by either route for an endpoint whose method is GET
\* or DELETE, in any letter case, has a request_variation without a body key.
C8_NoBodyForGetDelete ==
    /\ (Batch /\ pc = "done") =>
          \A k \in 1..Len(response.results) :
              response.results[k].method \in BodylessSpellings =>
                  NoBodyKey(response.results[k].test_cases)
    /\ (route = "single" /\ pc = "done" /\ response.method \in BodylessSpellings) =>
          NoBodyKey(response.test_cases)

\* C8 witness: a batch returned test cases for a lower-case "get" endpoint from a
\* completion whose request_variation carried a body
C8_Witness ==
    /\ Batch /\ pc = "done"
    /\ response.results[idx].method = "get"
    /\ response.results[idx].test_cases # <<>>
    /\ calls[Len(calls)].out.text = T_FENCED

(***************************************************************************)
(* Properties of sanitize_test_cases.                                      *)
(***************************************************************************)
TestCaseKeys == {K_ID, K_CATEGORY, K_NAME, K_RV, K_STATUS, K_BEHAVIOR}

\* C9: what sanitize_test_cases returns has the length and order of its argument,
\* each record has exactly the six TestCase keys, an absent expected_behavior is the
\* empty string, and request_variation has a headers mapping.
C9_SanitizerShape ==
    (route = "sanitizer" /\ pc = "sanitize_returned" /\ parsed.t = "arr") =>
        /\ Len(test_cases) = Len(parsed.v)
        /\ \A i \in 1..Len(test_cases) :
              /\ DOMAIN test_cases[i].v = TestCaseKeys
              /\ test_cases[i].v[K_ID] = DictGet(parsed.v[i], K_ID, JNull)
              /\ (K_BEHAVIOR \notin DOMAIN parsed.v[i].v =>
                      test_cases[i].v[K_BEHAVIOR] = JStr(<<>>))
              /\ K_HEADERS \in DOMAIN test_cases[i].v[K_RV].v
              /\ test_cases[i].v[K_RV].v[K_HEADERS].t = "obj"

\* C10: sanitize_test_cases never raises, whatever records it is handed.
C10_SanitizerNeverRaises == route = "sanitizer" => pc # "sanitize_raised"

(***************************************************************************)
(* Properties of POST /generate_test_cases.                                *)
(***************************************************************************)
ScenarioRoute == route = "scenario_cases"

\* the handler returned its normal response
ScenarioReturned == ScenarioRoute /\ pc = "done" /\ response.status = 200

\* a list that is the one record {"error": ...}
IsPlaceholder(cases) ==
    Len(cases) = 1 /\ cases[1].t = "obj" /\ DOMAIN cases[1].v = {K_ERROR}

\* C11: POST /generate_test_cases with a list of n scenarios returns exactly n
\* result entries, entry k being for the k-th input scenario, also when scenarios
\* become equal text after the leading numbering is stripped.
C11_OneEntryPerScenarioInOrder ==
    ScenarioReturned =>
        /\ Len(response.results) = Len(Scenarios)
        /\ \A k \in 1..Len(Scenarios) :
              k <= Len(response.results)
              /\ response.results[k].scenario = ScenarioText(Scenarios[k])

\* C12: every result entry of POST /generate_test_cases carries either exactly 3
\* test-case records or exactly 1 error placeholder record, whatever number of
\* records the completion had.
C12_ThreeCasesOrPlaceholder ==
    ScenarioReturned =>
        \A k \in 1..Len(response.results) :
            \/ IsPlaceholder(response.results[k].test_cases)
            \/ Len(response.results[k].test_cases) = 3

\* the identifiers of a list of test cases are TC001, TC002, ... in list order
NumberedFromTC001(cases) ==
    /\ \A i \in 1..Len(cases) :
          /\ cases[i].t = "obj"
          /\ K_TCID \in DOMAIN cases[i].v
          /\ cases[i].v[K_TCID] = JStr(<<"TC", "0", "0", Digit(i)>>)
    /\ \A i, j \in 1..Len(cases) : i # j => cases[i].v[K_TCID] # cases[j].v[K_TCID]

\* C13: in every result entry of POST /generate_test_cases that is not an error
\* placeholder, the testCaseID of the i-th test case is "TC" followed by i
\* zero-padded to 3 digits, so the identifiers of an entry are unique and
\* sequential from TC001, whatever identifiers the completion carried or lacked.
C13_IdsRenumbered ==
    ScenarioRoute =>
        /\ \A k \in 1..Len(results) :
              ~IsPlaceholder(results[k].test_cases) =>
                  NumberedFromTC001(results[k].test_cases)
        /\ (ScenarioReturned => response.results = results)

\* C13 witness: a returned entry of three test cases for a completion whose
\* records carried TC007, no identifier, and TC007 again
C13_Witness ==
    /\ ScenarioReturned
    /\ Len(outcomes) = 1 /\ outcomes[1] = Returned(S_THREE)
    /\ Len(response.results[1].test_cases) = 3
    /\ ~IsPlaceholder(response.results[1].test_cases)

\* the upstream call of a scenario failed, or its completion is not JSON
ScenarioFailure(o) == o.raised \/ ~json_loads(o.text).ok

\* the list that the outcome of the one call of a scenario determines
ExpectedCases(o) ==
    IF o.raised THEN FailedToGenerate(E_UPSTREAM) ELSE ScenarioCasesOf(o.text)

\* C14: each scenario causes exactly one upstream completion call, a failure for
\* one scenario yields a single placeholder record for that scenario, and the
\* result of every scenario is what its own call determines, whatever happened to
\* the other scenarios.
C14_OneCallPerScenarioIsolated ==
    ScenarioRoute =>
        /\ gens = idx /\ Len(outcomes) = idx
        /\ ScenarioReturned =>
              /\ gens = Len(Scenarios)
              /\ \A k \in 1..Len(Scenarios) :
                    /\ k <= Len(response.results)
                    /\ response.results[k].test_cases = ExpectedCases(outcomes[k])
                    /\ (ScenarioFailure(outcomes[k]) =>
                            IsPlaceholder(response.results[k].test_cases))

(***************************************************************************)
(* Properties of the identifiers and of the single route.                  *)
(***************************************************************************)
\* the number an identifier of a completion spells (0: it spells none)
IdNumber(id) ==
    CASE id = JStr(<<"TC01">>) -> 1
      [] id = JStr(<<"TC02">>) -> 2
      [] id = JStr(<<"TC07">>) -> 7
      [] OTHER -> 0

SequentialFromOne(cases) ==
    /\ \A i \in 1..Len(cases) : IdNumber(cases[i].v[K_ID]) = i
    /\ \A i, j \in 1..Len(cases) : i # j => cases[i].v[K_ID] # cases[j].v[K_ID]

\* C15: in every successful result of POST /testing/generate and of
\* POST /testing/generate-single the test_case_id values of the returned test
\* cases are unique and sequential starting at 1, whatever identifiers the
\* completion carried.
C15_IdsSequentialFromOne ==
    /\ (Batch /\ pc = "done") =>
          \A k \in 1..Len(response.results) :
              SequentialFromOne(response.results[k].test_cases)
    /\ (route = "single" /\ pc = "done") => SequentialFromOne(response.test_cases)

\* C18: POST /testing/generate-single makes exactly one generation call and at
\* most one repair call, the repair call only after the completion failed to
\* extract; a failed repair (the call raised, or its text does not extract) leaves
\* the handler as an HTTP 500 and is never turned into a response body.
C18_SingleNoRetry ==
    route = "single" =>
        /\ gens = (IF pc = "single_call" THEN 0 ELSE 1)
        /\ repairs <= 1
        /\ Len(calls) = gens + repairs
        /\ (repairs = 1 =>
              /\ calls[1].kind = "generate" /\ calls[2].kind = "repair"
              /\ ~calls[1].out.raised /\ ~ExtractionOf(calls[1].out.text).ok)
        /\ (RepairFailed => pc = "raised" /\ response = Http500)
        /\ (pc = "raised" <=> response = Http500)
        /\ (response.status = 200 =>
              /\ pc = "done"
              /\ ~calls[Len(calls)].out.raised
              /\ ExtractionOf(calls[Len(calls)].out.text).ok)

\* C18 witness: the completion did not extract, the repair call returned a text
\* that does not extract either, and the request ended as an HTTP 500 after the
\* two calls
C18_Witness ==
    /\ route = "single" /\ pc = "raised" /\ response = Http500
    /\ gens = 1 /\ repairs = 1
    /\ ~calls[2].out.raised /\ ~ExtractionOf(calls[2].out.text).ok

(***************************************************************************)
(* Properties of POST /generate and POST /stream.                          *)
(***************************************************************************)
\* the handler of POST /generate has answered
GenerateAnswered == route = "generate" /\ pc = "done"

\* C16: POST /generate answers HTTP 400 whenever the parsed request body has no
\* testcase field or an empty one, and makes no upstream call then.
C16_MissingTestcaseIs400 ==
    (GenerateAnswered /\ data # BODY_INVALID /\ data.t = "obj" /\ NoTestcase(data)) =>
        (response.status = 400 /\ gens = 0)

\* the completion of the one call parses neither directly nor through the span of
\* the fallback search
Unparsed(text) ==
    /\ ~json_loads(text).ok
    /\ (FallbackSpan(text) = <<>> \/ ~json_loads(FallbackSpan(text)).ok)

\* C17: POST /generate never returns unparsed model text: when the completion
\* parses neither directly nor through the fallback span search, the response is
\* an explicit error, never a success payload that wraps the raw completion.
C17_NoRawCompletionReturned ==
    (GenerateAnswered /\ calls # <<>> /\ ~calls[1].out.raised
       /\ Unparsed(calls[1].out.text)) =>
        /\ response.status >= 400
        /\ response # Generated(Obj1(K_TEST_CASES, JStr(calls[1].out.text)))

\* f"data: {content}\n\n"
Frame(chunk) == <<"data: ">> \o chunk \o <<NL, NL>>

\* the frames of the non-empty increments of a stream, in arrival order
RECURSIVE FramesOf(_)
FramesOf(increments) ==
    IF increments = <<>> THEN <<>>
    ELSE IF Head(increments) = <<>> THEN FramesOf(Tail(increments))
         ELSE <<Frame(Head(increments))>> \o FramesOf(Tail(increments))

\* C19: POST /stream relays the upstream increments: for a request with a prompt,
\* the response is the event stream whose frames are the non-empty increments of
\* the upstream stream, one "data: <chunk>" frame each, in arrival order, none
\* duplicated, ending when the upstream stream ends.
C19_StreamRelaysIncrements ==
    (route = "stream" /\ pc = "done" /\ api_key /\ data # BODY_INVALID
       /\ data.t = "obj" /\ ~Falsy(DictGet(data, K_PROMPT, JNull))) =>
        response = [status |-> 200, frames |-> FramesOf(stream)]

(***************************************************************************)
(* Upstream calls of one attempt (Spec)                                    *)
(***************************************************************************)
\* the calls of the given kind among the calls of the current attempt
CallsOfKind(kind) == Cardinality({i \in 1..Len(calls) : calls[i].kind = kind})

\* the attempt whose calls the variable calls holds has ended
AttemptOver ==
    \/ Batch /\ started >= 1 /\ pc \in {"try", "append", "for", "done"}
    \/ route = "single" /\ pc \in {"done", "raised"}

\* the repair call follows a completion on which safe_extract_json failed, and
\* is the only one of the attempt; the calls of an endpoint stay within 3 + 3
RepairOnlyAfterFailedExtraction ==
    /\ CallsOfKind("repair") <= 1
    /\ \A i \in 1..Len(calls) :
          calls[i].kind = "repair" =>
              /\ i = 2 /\ calls[1].kind = "generate"
              /\ ~calls[1].out.raised
              /\ ~ExtractionOf(calls[1].out.text).ok
    /\ gens <= Attempts /\ repairs <= Attempts
    /\ gens + repairs <= 2 * Attempts
    /\ route = "single" => gens + repairs <= 2

\* C25 as claimed: every attempt makes the generation call exactly once; the
\* repair call is made only after safe_extract_json failed on the attempt's
\* completion, at most once per attempt; an endpoint causes at most 6 calls
C25_GenerationExactlyOncePerAttempt ==
    route \in Routes =>
        /\ CallsOfKind("generate") <= 1
        /\ AttemptOver => CallsOfKind("generate") = 1
        /\ RepairOnlyAfterFailedExtraction

\* C25 as amended: an attempt makes the generation call at most once: once when
\* the request for the endpoint could be built, not at all when building it
\* raised (a URL that urlparse rejects); the rest as claimed
C25_GenerationAtMostOncePerAttempt ==
    route \in Routes =>
        /\ CallsOfKind("generate") <= 1
        /\ AttemptOver =>
              CallsOfKind("generate") =
                  IF Batch /\ UrlParseRaises(Endpoint.url) THEN 0 ELSE 1
        /\ RepairOnlyAfterFailedExtraction

\* C25 witness: an endpoint of a batch that used all 6 calls, one generation and
\* one repair call in its last attempt
C25_Witness ==
    /\ Batch /\ pc = "append" /\ gens = Attempts /\ repairs = Attempts
    /\ CallsOfKind("generate") = 1 /\ CallsOfKind("repair") = 1

(***************************************************************************)
(* Termination of the batch route (FairSpec)                               *)
(***************************************************************************)
\* POST /testing/generate has returned an entry for each endpoint of the batch
BatchAnswered ==
    /\ Batch /\ pc = "done" /\ response.status = 200
    /\ Len(response.results) = Len(endpoints)
    /\ response.total_apis = Len(endpoints)

\* the k-th endpoint was reported as failed and is not the last of the batch
FailedBeforeOthers(k) ==
    /\ Batch /\ k < Len(endpoints) /\ Len(outcomes) >= k
    /\ AllAttemptsFailed(k)

\* C26: every upstream call returning or raising, POST /testing/generate ends
\* with an entry for each of the N endpoints, and an endpoint whose retries are
\* exhausted is followed by the entry of the endpoint after it
C26_EveryEndpointGetsItsEntry ==
    /\ Batch ~> BatchAnswered
    /\ \A k \in 1..MaxEndpoints : FailedBeforeOthers(k) ~> (Len(results) >= k + 1)

\* C26 witness: the first endpoint failed in all its attempts and the batch
\* ended with an entry for it and a successful entry for the endpoint after it
C26_Witness ==
    /\ BatchAnswered /\ Len(endpoints) >= 2
    /\ AllAttemptsFailed(1) /\ outcomes[2].succeeded

(***************************************************************************)
(* Properties of safe_extract_json (ExtractSpec)                           *)
(***************************************************************************)
\* the call of safe_extract_json on ai_text has been made
Extracted == pc \in {"extract_returned", "extract_raised", "sanitize", "repair", "for", "try"}

\* C21: a completion that is a valid JSON object but for one trailing comma
\* before a closing "]" or "}" is parsed by safe_extract_json itself: the
\* extraction returns the object (the value of the text without the comma, when
\* no string of it holds a comma before a bracket or a fence) and the attempt
\* makes no repair call
C21_TrailingCommaParsedWithoutRepair ==
    (Extracted /\ ai_text \in TrailingTexts) =>
        /\ pc \in {"extract_returned", "sanitize"}
        /\ parsed.t = "obj"
        /\ IsPlain(ai_text) => parsed = json_loads(CleanOf(ai_text)).val
        /\ repairs = 0
        /\ \A i \in 1..Len(calls) : calls[i].kind # "repair"

C21_Witness ==
    /\ route = "batch" /\ pc = "sanitize"
    /\ ai_text = ObjectOf(ArrayOf(<<LBRACE, RBRACE>>, Str("a"), <<COMMA, NL, SP>>), <<>>)
    /\ parsed = json_loads(CleanOf(ai_text)).val
    /\ Len(calls) = 1 /\ repairs = 0

\* a text that json.loads reads as an object
ValidObject(text) == json_loads(text).ok /\ json_loads(text).val.t = "obj"

\* C22: for every text that is already a valid JSON object, safe_extract_json
\* returns the value that parsing the text directly gives, strings that hold
\* ",}", ",]" or fence tokens included
C22_ExtractionKeepsValidObjects ==
    (route = "extractor" /\ Extracted /\ ValidObject(ai_text)) =>
        pc = "extract_returned" /\ parsed = json_loads(ai_text).val

\* no "{" of the text is followed later by a "}"
NoBracePair(text) ==
    ~\E i, j \in 1..Len(text) : i < j /\ text[i] = LBRACE /\ text[j] = RBRACE

\* C23: safe_extract_json raises "Empty AI response" on the empty text and
\* "No JSON found" on every non-empty text without a "{" followed later by a
\* "}"; it returns no value for either
C23_ErrorsByCause ==
    (route = "extractor" /\ Extracted) =>
        /\ ai_text = <<>> => pc = "extract_raised" /\ error = E_EMPTY
        /\ (ai_text # <<>> /\ NoBracePair(ai_text)) =>
               pc = "extract_raised" /\ error = E_NOJSON

C23_Witness ==
    /\ route = "extractor" /\ pc = "extract_raised"
    /\ \/ ai_text = <<>> /\ error = E_EMPTY
       \/ ai_text = <<RBRACE, "a", LBRACE>> /\ error = E_NOJSON

(***************************************************************************)
(* Properties of POST /playback (PlaybackSpec)                             *)
(***************************************************************************)
\* the steps of the payload were replayed in list order, each one once
ReplayedInOrder ==
    /\ Len(calls) = Len(data.steps)
    /\ \A i \in 1..Len(calls) : calls[i].step = i

\* C24: for any list of steps and a browser that starts and loads pages, the
\* call ends with the status "Playback completed" after every step of the list
\* was attempted in list order, whatever steps failed on the way
C24_PlaybackCompletesForAnyList ==
    (route = "playback" /\ pc = "done" /\ "steps" \in DOMAIN data /\ error # E_WEBDRIVER) =>
        response = PlaybackCompleted /\ ReplayedInOrder

(***************************************************************************)
(* Error answers of POST /generate and POST /generate_test_cases           *)
(***************************************************************************)
\* C27: POST /generate answers HTTP 422 "Invalid JSON payload" only when the
\* request body is not parseable JSON; a completion that fails to parse, directly
\* or in the span of the fallback search, never gets a 422
C27_InvalidPayloadOnlyForRequestBody ==
    (GenerateAnswered /\ response.status = 422) => (data = BODY_INVALID /\ calls = <<>>)

\* the body is a dict whose test_scenarios list is missing or empty
NoScenarios(body) ==
    /\ body # BODY_INVALID /\ body.t = "obj"
    /\ K_SCENARIOS \in DOMAIN body.v => body.v[K_SCENARIOS] = EmptyList

\* C28: POST /generate_test_cases with a missing or empty test_scenarios list
\* answers HTTP 400 "No test scenarios provided" and makes no upstream call
C28_NoScenariosIs400 ==
    (ScenarioRoute /\ pc = "done" /\ NoScenarios(data)) =>
        (response.status = 400 /\ gens = 0 /\ calls = <<>>)

=============================================================================
